---- MODULE Spec2Model ----
(***************************************************************************)
(* The attempt lifecycle of backend/quiz.py: report_violation (with its    *)
(* "__init__" sentinel) and submit_quiz as request handlers whose awaited  *)
(* store operations (find_one, insert_one, update_one, find) are the       *)
(* atomic steps, so that handlers of concurrent requests interleave        *)
(* between them.  The store is the attempts, questions and quizzes          *)
(* collections.                                                            *)
(*                                                                         *)
(* Spec        the handlers running concurrently on an initially empty     *)
(*             store                                                       *)
(* SpecSubmit  the computation of submit_quiz (score, pass policy, stored  *)
(*             document, response) applied to inputs from bounded sets     *)
(* SpecBoard   leaderboard and compute_rank applied to stores of attempts  *)
(*             from a bounded set                                          *)
(* SpecQuiz    create_quiz requests running concurrently on an initially   *)
(*             empty store                                                 *)
(***************************************************************************)
EXTENDS Integers, Sequences, FiniteSets, TLC

VARIABLES
    attempts_col,   \* quiz_attempts collection: documents in insertion order
    questions_col,  \* questions collection: documents in insertion order
    quizzes_col,    \* quizzes collection: documents in insertion order
    clock,          \* the last value datetime.utcnow() returned
    req,            \* per request slot: the handler's arguments, locals and position
    started,        \* number of requests accepted so far
    response,       \* the HTTP response sent by the last step, if it sent one
    fin,            \* input of the submit computation (pure-function specification)
    fout            \* its output

vars == <<attempts_col, questions_col, quizzes_col, clock, req, started, response, fin, fout, quizzes_col>>

(* ------------------------------ bounds -------------------------------- *)
MaxRequests == 3     \* requests accepted in one behaviour
MaxQuestions == 1    \* questions added to the store
MaxClock == 1        \* largest value of the clock
MaxTotal == 4        \* questions of a quiz in the submit computation's inputs
MaxViolations == 2   \* prior violation count in the submit computation's inputs

\* two request slots: at most two handlers are between their awaits at once
Procs == {1, 2}
Students == {"s1"}
Quizzes == {"q1"}

(* ------------------------------ values -------------------------------- *)
\* submitted_at of an attempt that is not submitted (None)
NoneTime == -1

IN_PROGRESS == "IN_PROGRESS"
PASSED == "PASSED"
FAILED == "FAILED"
Terminal == {PASSED, FAILED}

\* what find_one returns when nothing matches (None)
NoDoc == [_id |-> 0]

\* str.upper() on the option labels
Upper(s) ==
    CASE s = "a" -> "A"
      [] s = "b" -> "B"
      [] s = "c" -> "C"
      [] s = "d" -> "D"
      [] OTHER -> s

\* str(q["_id"]): the key a question has in the submitted answers
StrId(oid) == ToString(oid)

\* doc.get("violation_count", 0), and 0 for no document
ViolationCountOf(doc) ==
    IF doc # NoDoc /\ "violation_count" \in DOMAIN doc THEN doc.violation_count ELSE 0

\* payload.answers.get(qid, "")
AnswerGet(answers, qid) == IF qid \in DOMAIN answers THEN answers[qid] ELSE ""

(* --------------------------- the document store ----------------------- *)
Min(S) == CHOOSE x \in S : \A y \in S : x <= y

\* collection.find_one(filter): of the documents matching the filter (ids,
\* their positions in natural order) the first, or None
FindOne(col, ids) == IF ids = {} THEN NoDoc ELSE col[Min(ids)]

\* collection.insert_one(doc): the store assigns the _id
InsertOne(col, doc) ==
    Append(col, [k \in DOMAIN doc \cup {"_id"} |->
                    IF k = "_id" THEN Len(col) + 1 ELSE doc[k]])

\* {"$set": fields} on one document
MongoSet(doc, fields) ==
    [k \in DOMAIN doc \cup DOMAIN fields |->
        IF k \in DOMAIN fields THEN fields[k] ELSE doc[k]]

\* {"$push": {"violations": v}} on one document (creates the array if absent)
MongoPush(doc, v) ==
    [k \in DOMAIN doc \cup {"violations"} |->
        IF k = "violations"
        THEN IF "violations" \in DOMAIN doc THEN Append(doc.violations, v) ELSE <<v>>
        ELSE doc[k]]

\* an update document: its $set fields and, if slot push holds one, its $push
ApplyUpdate(doc, update) ==
    IF update.push = <<>>
    THEN MongoSet(doc, update.set)
    ELSE MongoPush(MongoSet(doc, update.set), update.push[1])

\* collection.update_one({"_id": id}, update): no match, no change
UpdateOne(col, id, update) ==
    [i \in 1..Len(col) |->
        IF col[i]["_id"] = id THEN ApplyUpdate(col[i], update) ELSE col[i]]

\* the filter {"student_university_number": univ, "quiz_id": quiz_id}
AttemptOf(univ, quiz_id, doc) ==
    doc.student_university_number = univ /\ doc.quiz_id = quiz_id

FindAttempt(univ, quiz_id) ==
    FindOne(attempts_col,
            {i \in 1..Len(attempts_col) : AttemptOf(univ, quiz_id, attempts_col[i])})

FindAttemptById(id) ==
    FindOne(attempts_col,
            {i \in 1..Len(attempts_col) : attempts_col[i]["_id"] = id})

(* ------------------------------ requests ------------------------------ *)
Idle == [op |-> "idle", pc |-> "idle"]

\* no response leaves in this step
NoResponse == [op |-> "none"]

\* a new request takes the lowest free slot
FreeSlot(p) ==
    /\ req[p] = Idle
    /\ \A o \in Procs : o < p => req[o] # Idle
    /\ started < MaxRequests

Times == 0..MaxClock

\* datetime.utcnow(): the clock does not run backwards
UtcNow(t) == t \in {clock, clock + 1} /\ t <= MaxClock

ViolationTypes == {"__init__", "tab_switch", "noise"}

(* --------------------------- report_violation ------------------------- *)
CallReportViolation(p, univ, quiz_id, vt) ==
    /\ FreeSlot(p)
    /\ req' = [req EXCEPT ![p] =
                  [op |-> "report_violation", pc |-> "find_one", univ |-> univ,
                   quiz_id |-> quiz_id, violation_type |-> vt]]
    /\ started' = started + 1
    /\ response' = NoResponse
    /\ UNCHANGED <<attempts_col, questions_col, clock, fin, fout, quizzes_col>>

\* the document the sentinel inserts
NewAttempt(univ, quiz_id, now) ==
    [student_university_number |-> univ, quiz_id |-> quiz_id, answers |-> <<>>,
     score |-> 0, violation_count |-> 0, violations |-> <<>>,
     status |-> IN_PROGRESS, started_at |-> now, submitted_at |-> NoneTime]

\* the check without the status: any stored attempt would do
ActiveAttempt_AnyStatus(attempt) == attempt # NoDoc

\* "Must have an active attempt"
ActiveAttempt(attempt) ==
    /\ attempt # NoDoc
    /\ ("status" \notin DOMAIN attempt \/ attempt.status = IN_PROGRESS)

\* a threshold off by one: only the third violation would fail
Escalates_LateThreshold(vt, new_count) == vt = "tab_switch" \/ new_count > 2

\* "Tab switch = immediate FAIL"
Escalates(vt, new_count) == vt = "tab_switch" \/ new_count > 1

\* an update document that also clears the score of an attempt it fails
ViolationUpdate_ResetsScore(attempt, vt, now) ==
    LET new_count == ViolationCountOf(attempt) + 1
    IN  [set |-> IF Escalates(vt, new_count)
                 THEN [violation_count |-> new_count, status |-> FAILED,
                       submitted_at |-> now, score |-> 0]
                 ELSE [violation_count |-> new_count],
         push |-> <<vt>>]

\* the update document of a real violation
ViolationUpdate(attempt, vt, now) ==
    LET new_count == ViolationCountOf(attempt) + 1
    IN  [set |-> IF Escalates(vt, new_count)
                 THEN [violation_count |-> new_count, status |-> FAILED,
                       submitted_at |-> now]
                 ELSE [violation_count |-> new_count],
         push |-> <<vt>>]

ViolationResponse(code, count, status) ==
    [op |-> "report_violation", code |-> code, violation_count |-> count,
     status |-> status]

NotFound == [op |-> "report_violation", code |-> 404]

\* what the sentinel answers
InitResponse(attempt) == ViolationResponse(200, 0, IN_PROGRESS)

\* the sentinel inserting whatever find_one returned
NeedsAttempt_Always(attempt) == TRUE

\* "create attempt if not exists"
NeedsAttempt(attempt) == attempt = NoDoc

\* the first await and the code up to the next one
rv_find_one(p) ==
    /\ req[p].op = "report_violation" /\ req[p].pc = "find_one"
    /\ LET r == req[p]
           attempt == FindAttempt(r.univ, r.quiz_id)
       IN  IF r.violation_type = "__init__"
           THEN IF NeedsAttempt(attempt)
                THEN \E now \in Times :
                        /\ UtcNow(now)
                        /\ clock' = now
                        /\ req' = [req EXCEPT ![p] =
                               [r EXCEPT !.pc = "insert_one"] @@
                               [attempt |-> attempt,
                                doc |-> NewAttempt(r.univ, r.quiz_id, now)]]
                        /\ response' = NoResponse
                ELSE /\ response' = InitResponse(attempt)
                     /\ req' = [req EXCEPT ![p] = Idle]
                     /\ UNCHANGED clock
           ELSE IF ~ActiveAttempt(attempt)
                THEN /\ response' = NotFound
                     /\ req' = [req EXCEPT ![p] = Idle]
                     /\ UNCHANGED clock
                ELSE \E now \in Times :
                        /\ IF Escalates(r.violation_type, ViolationCountOf(attempt) + 1)
                           THEN UtcNow(now)
                           ELSE now = clock
                        /\ clock' = now
                        /\ req' = [req EXCEPT ![p] =
                               [r EXCEPT !.pc = "update_one"] @@
                               [attempt |-> attempt,
                                update |-> ViolationUpdate(attempt, r.violation_type, now)]]
                        /\ response' = NoResponse
    /\ UNCHANGED <<attempts_col, questions_col, started, fin, fout, quizzes_col>>

rv_insert_one(p) ==
    /\ req[p].op = "report_violation" /\ req[p].pc = "insert_one"
    /\ attempts_col' = InsertOne(attempts_col, req[p].doc)
    /\ response' = InitResponse(req[p].attempt)
    /\ req' = [req EXCEPT ![p] = Idle]
    /\ UNCHANGED <<questions_col, clock, started, fin, fout, quizzes_col>>

rv_update_one(p) ==
    /\ req[p].op = "report_violation" /\ req[p].pc = "update_one"
    /\ attempts_col' = UpdateOne(attempts_col, req[p].attempt["_id"], req[p].update)
    /\ req' = [req EXCEPT ![p].pc = "find_updated"]
    /\ response' = NoResponse
    /\ UNCHANGED <<questions_col, clock, started, fin, fout, quizzes_col>>

rv_find_updated(p) ==
    /\ req[p].op = "report_violation" /\ req[p].pc = "find_updated"
    /\ LET updated == FindAttemptById(req[p].attempt["_id"])
       IN  response' = ViolationResponse(200, updated.violation_count, updated.status)
    /\ req' = [req EXCEPT ![p] = Idle]
    /\ UNCHANGED <<attempts_col, questions_col, clock, started, fin, fout, quizzes_col>>

(* ------------------------------ add_question -------------------------- *)
\* correct_option as a teacher may send it
CorrectOptionInputs == {"a", "B"}

add_question(quiz_id, correct_option) ==
    /\ Len(questions_col) < MaxQuestions
    /\ questions_col' = InsertOne(questions_col,
                            [quiz_id |-> quiz_id,
                             correct_option |-> Upper(correct_option)])
    /\ response' = NoResponse
    /\ UNCHANGED <<attempts_col, clock, req, started, fin, fout, quizzes_col>>

(* ------------------------------- submit_quiz -------------------------- *)
\* the keys of the questions the store can hold, and one that is no question
QuestionKeys == {StrId(i) : i \in 1..MaxQuestions}

\* answer maps a student submits: every question answered "a", and one
\* answer "B" beside an answer for an id that is no question
AnswerInputs ==
    { [k \in QuestionKeys |-> "a"],
      [k \in {StrId(1), "x"} |-> IF k = "x" THEN "A" ELSE "B"] }

\* started_at as the client sends it
StartedAtInputs == {0}

CallSubmitQuiz(p, univ, quiz_id, answers, started_at, force_fail) ==
    /\ FreeSlot(p)
    /\ req' = [req EXCEPT ![p] =
                  [op |-> "submit_quiz", pc |-> "find_one", univ |-> univ,
                   quiz_id |-> quiz_id, answers |-> answers,
                   started_at |-> started_at, force_fail |-> force_fail]]
    /\ started' = started + 1
    /\ response' = NoResponse
    /\ UNCHANGED <<attempts_col, questions_col, clock, fin, fout, quizzes_col>>

\* "Quiz already submitted"
AlreadySubmitted(existing) ==
    /\ existing # NoDoc
    /\ "status" \in DOMAIN existing
    /\ existing.status \in Terminal

\* async for q in questions_col.find({"quiz_id": quiz_id})
QuestionsOf(quiz_id) ==
    LET Match(q) == q.quiz_id = quiz_id
    IN  SelectSeq(questions_col, Match)

\* the comparison without upper(): a lower-case answer would not match
IsCorrect_CaseSensitive(answers, q) ==
    AnswerGet(answers, StrId(q["_id"])) = q.correct_option

\* payload.answers.get(qid, "").upper() == q["correct_option"].upper()
IsCorrect(answers, q) ==
    Upper(AnswerGet(answers, StrId(q["_id"]))) = Upper(q.correct_option)

\* the loop counting the correct answers
RECURSIVE CountCorrect(_, _)
CountCorrect(answers, all_questions) ==
    IF all_questions = <<>>
    THEN 0
    ELSE (IF IsCorrect(answers, Head(all_questions)) THEN 1 ELSE 0)
         + CountCorrect(answers, Tail(all_questions))

\* a strict threshold: the exact half would fail
MeetsThreshold_Strict(score, total) == 2 * score > total

\* score >= total * 0.5: total * 0.5 is exact in binary floating point, so
\* the comparison is that of the doubled score with the total
MeetsThreshold(score, total) == 2 * score >= total

\* a policy that tolerates no violation at all
PassStatus_NoViolationAllowed(score, total, violation_count) ==
    IF MeetsThreshold(score, total) /\ violation_count < 1 THEN PASSED ELSE FAILED

\* "PASSED" if (score >= total * 0.5 and violation_count <= 1) else "FAILED"
PassStatus(score, total, violation_count) ==
    IF MeetsThreshold(score, total) /\ violation_count <= 1 THEN PASSED ELSE FAILED

\* force_fail not looked at: score and status always computed
SubmitOutcome_NeverForced(force_fail, answers, all_questions, violation_count) ==
    LET score == CountCorrect(answers, all_questions)
        total == Len(all_questions)
    IN  [score |-> score, status |-> PassStatus(score, total, violation_count)]

\* score and status, forced or computed
SubmitOutcome(force_fail, answers, all_questions, violation_count) ==
    IF force_fail
    THEN [score |-> 0, status |-> FAILED]
    ELSE LET score == CountCorrect(answers, all_questions)
             total == Len(all_questions)
         IN  [score |-> score, status |-> PassStatus(score, total, violation_count)]

AttemptDoc(univ, quiz_id, answers, started_at, force_fail, outcome, violation_count, now) ==
    [student_university_number |-> univ, quiz_id |-> quiz_id, answers |-> answers,
     score |-> IF ~force_fail THEN outcome.score ELSE 0,
     violation_count |-> violation_count, status |-> outcome.status,
     started_at |-> started_at, submitted_at |-> now]

SubmitResponse(attempt_doc, rank) ==
    [op |-> "submit_quiz", code |-> 200, score |-> attempt_doc.score,
     status |-> attempt_doc.status, violation_count |-> attempt_doc.violation_count,
     rank |-> rank, submitted_at |-> attempt_doc.submitted_at]

Conflict == [op |-> "submit_quiz", code |-> 400]

\* the rank reported after a submission
compute_rank(quiz_id, univ) ==
    1 + Cardinality({i \in 1..Len(attempts_col) :
            /\ attempts_col[i].quiz_id = quiz_id
            /\ attempts_col[i].status \in Terminal
            /\ attempts_col[i].student_university_number # univ
            /\ attempts_col[i].score > 0})

\* the handler from the attempt_doc it built on: the code between one await
\* and the next
BuildAttemptDoc(r, existing, all_questions, now) ==
    LET violation_count == ViolationCountOf(existing)
        outcome == SubmitOutcome(r.force_fail, r.answers, all_questions, violation_count)
    IN  AttemptDoc(r.univ, r.quiz_id, r.answers, r.started_at, r.force_fail,
                   outcome, violation_count, now)

sq_find_one(p) ==
    /\ req[p].op = "submit_quiz" /\ req[p].pc = "find_one"
    /\ LET r == req[p]
           existing == FindAttempt(r.univ, r.quiz_id)
       IN  IF AlreadySubmitted(existing)
           THEN /\ response' = Conflict
                /\ req' = [req EXCEPT ![p] = Idle]
                /\ UNCHANGED clock
           ELSE IF r.force_fail
                THEN \E now \in Times :
                        /\ UtcNow(now)
                        /\ clock' = now
                        /\ req' = [req EXCEPT ![p] =
                               [r EXCEPT !.pc = "write"] @@
                               [existing |-> existing,
                                attempt_doc |-> BuildAttemptDoc(r, existing, <<>>, now)]]
                        /\ response' = NoResponse
                ELSE /\ req' = [req EXCEPT ![p] =
                               [r EXCEPT !.pc = "questions"] @@ [existing |-> existing]]
                     /\ response' = NoResponse
                     /\ UNCHANGED clock
    /\ UNCHANGED <<attempts_col, questions_col, started, fin, fout, quizzes_col>>

sq_questions(p) ==
    /\ req[p].op = "submit_quiz" /\ req[p].pc = "questions"
    /\ LET r == req[p]
           all_questions == QuestionsOf(r.quiz_id)
       IN  \E now \in Times :
              /\ UtcNow(now)
              /\ clock' = now
              /\ req' = [req EXCEPT ![p] =
                     [r EXCEPT !.pc = "write"] @@
                     [attempt_doc |-> BuildAttemptDoc(r, r.existing, all_questions, now)]]
    /\ response' = NoResponse
    /\ UNCHANGED <<attempts_col, questions_col, started, fin, fout, quizzes_col>>

sq_write(p) ==
    /\ req[p].op = "submit_quiz" /\ req[p].pc = "write"
    /\ LET r == req[p]
       IN  IF r.existing # NoDoc
           THEN attempts_col' = UpdateOne(attempts_col, r.existing["_id"],
                                          [set |-> r.attempt_doc, push |-> <<>>])
           ELSE attempts_col' = InsertOne(attempts_col, r.attempt_doc)
    /\ req' = [req EXCEPT ![p].pc = "compute_rank"]
    /\ response' = NoResponse
    /\ UNCHANGED <<questions_col, clock, started, fin, fout, quizzes_col>>

sq_compute_rank(p) ==
    /\ req[p].op = "submit_quiz" /\ req[p].pc = "compute_rank"
    /\ LET r == req[p]
           rank == compute_rank(r.quiz_id, r.univ)
       IN  response' = SubmitResponse(r.attempt_doc, rank)
    /\ req' = [req EXCEPT ![p] = Idle]
    /\ UNCHANGED <<attempts_col, questions_col, clock, started, fin, fout, quizzes_col>>

(* ------------------- the submit computation on its inputs ------------- *)
\* The code of submit_quiz from the attempt it found to the document it
\* writes and the response it returns, applied to inputs drawn from bounded
\* sets: a request, the attempt find_one returned (none, or one in progress
\* with some violation count) and the questions of the quiz.
NoInput == [op |-> "none"]
NoOutput == [op |-> "none"]

\* labels as add_question stores them
StoredLabels == {Upper(c) : c \in CorrectOptionInputs}

\* the question lists of a quiz: the store's _ids in insertion order
QuestionLists ==
    UNION {[1..n -> StoredLabels] : n \in 0..MaxTotal}

QuestionDocs(labels) ==
    [i \in 1..Len(labels) |->
        [_id |-> i, quiz_id |-> "q1", correct_option |-> labels[i]]]

\* a question is unanswered, or answered in either case
AnswerLabels == {"a", "B"}

AnswerMaps ==
    UNION {[K -> AnswerLabels] : K \in SUBSET {StrId(i) : i \in 1..MaxTotal}}

ExistingInputs ==
    {NoDoc} \cup
    {[k \in DOMAIN NewAttempt("s1", "q1", 0) \cup {"_id"} |->
        CASE k = "_id" -> 1
          [] k = "violation_count" -> n
          [] OTHER -> NewAttempt("s1", "q1", 0)[k]] : n \in 0..MaxViolations}

SubmitInputs ==
    {[op |-> "submit_quiz",
      r |-> [op |-> "submit_quiz", pc |-> "find_one", univ |-> "s1",
             quiz_id |-> "q1", answers |-> answers, started_at |-> 0,
             force_fail |-> force_fail],
      existing |-> existing,
      all_questions |-> QuestionDocs(labels)] :
        answers \in AnswerMaps, force_fail \in BOOLEAN,
        existing \in ExistingInputs, labels \in QuestionLists}

InitSubmit ==
    /\ attempts_col = <<>>
    /\ questions_col = <<>>
    /\ quizzes_col = <<>>
    /\ clock = 0
    /\ req = [p \in Procs |-> Idle]
    /\ started = 0
    /\ response = NoResponse
    /\ fin \in SubmitInputs
    /\ fout = NoOutput

submit_compute ==
    /\ fin.op = "submit_quiz" /\ fout = NoOutput
    /\ LET attempt_doc == BuildAttemptDoc(fin.r, fin.existing, fin.all_questions, clock)
       IN  fout' = [op |-> "submit_quiz", attempt_doc |-> attempt_doc,
                    response |-> SubmitResponse(attempt_doc, 1)]
    /\ UNCHANGED <<attempts_col, questions_col, clock, req, started, response, fin,
                 quizzes_col>>

NextSubmit == submit_compute

SpecSubmit == InitSubmit /\ [][NextSubmit]_vars

(* ------------------------------- create_quiz -------------------------- *)
\* what generate_access_code can return: random.choices picks any code, and
\* two codes are enough for a collision
AccessCodes == {"QZ-A3X9K2", "QZ-7KQ0ZD"}

Teachers == {"T001"}
QuizTitles == {"Midterm"}
QuizDurations == {30}

\* the handler up to its first await: the first code is generated
CallCreateQuiz(p, user, title, duration_minutes, access_code) ==
    /\ FreeSlot(p)
    /\ req' = [req EXCEPT ![p] =
                  [op |-> "create_quiz", pc |-> "find_one", user |-> user,
                   title |-> title, duration_minutes |-> duration_minutes,
                   access_code |-> access_code]]
    /\ started' = started + 1
    /\ response' = NoResponse
    /\ UNCHANGED <<attempts_col, questions_col, quizzes_col, clock, fin, fout>>

\* quizzes_col.find_one({"access_code": access_code})
FindQuizByCode(access_code) ==
    FindOne(quizzes_col,
            {i \in 1..Len(quizzes_col) : quizzes_col[i].access_code = access_code})

\* the loop condition: a quiz with this code is stored
CodeTaken(access_code) == FindQuizByCode(access_code) # NoDoc

QuizDoc(r, now) ==
    [title |-> r.title, duration_minutes |-> r.duration_minutes,
     created_by |-> r.user, created_at |-> now, access_code |-> r.access_code]

QuizCreated(quiz_id, access_code) ==
    [op |-> "create_quiz", code |-> 200, quiz_id |-> quiz_id,
     access_code |-> access_code, message |-> "Quiz created"]

\* one round of the while loop: a taken code is replaced by a new one and
\* checked again, a free one goes into the document to insert
cq_find_one(p) ==
    /\ req[p].op = "create_quiz" /\ req[p].pc = "find_one"
    /\ LET r == req[p]
       IN  IF CodeTaken(r.access_code)
           THEN /\ \E access_code \in AccessCodes :
                      req' = [req EXCEPT ![p].access_code = access_code]
                /\ UNCHANGED clock
           ELSE \E now \in Times :
                   /\ UtcNow(now)
                   /\ clock' = now
                   /\ req' = [req EXCEPT ![p] =
                          [r EXCEPT !.pc = "insert_one"] @@ [doc |-> QuizDoc(r, now)]]
    /\ response' = NoResponse
    /\ UNCHANGED <<attempts_col, questions_col, quizzes_col, started, fin, fout>>

cq_insert_one(p) ==
    /\ req[p].op = "create_quiz" /\ req[p].pc = "insert_one"
    /\ quizzes_col' = InsertOne(quizzes_col, req[p].doc)
    /\ response' = QuizCreated(StrId(Len(quizzes_col) + 1), req[p].access_code)
    /\ req' = [req EXCEPT ![p] = Idle]
    /\ UNCHANGED <<attempts_col, questions_col, clock, started, fin, fout>>

(* ------------------------------- leaderboard -------------------------- *)
MaxAttempts == 3     \* attempts in the stores the leaderboard is computed on

\* time_taken of an attempt whose timestamps do not both parse
SentinelTime == 99999

\* timedelta.seconds: the seconds within the day, the days are held apart
SecondsPerDay == 86400

\* a started_at that datetime.fromisoformat rejects
BadTime == -2

\* datetime.fromisoformat(t) returns: None and malformed strings raise
Parses(t) == t # NoneTime /\ t # BadTime

\* (fromisoformat(submitted_at) - fromisoformat(started_at)).seconds, or the
\* sentinel when the try block raises
TimeTaken(a) ==
    IF Parses(a.submitted_at) /\ Parses(a.started_at)
    THEN (a.submitted_at - a.started_at) % SecondsPerDay
    ELSE SentinelTime

\* the students collection is fixed here: the registered students, a student's
\* name written as the number it belongs to
RegisteredStudents == {ToString(i) : i \in 1..MaxAttempts}

\* student["name"] if student else "Unknown"
StudentName(univ) == IF univ \in RegisteredStudents THEN univ ELSE "Unknown"

\* the filter without the status: attempts in progress would be listed
OnLeaderboard_AnyStatus(quiz_id, a) == a.quiz_id = quiz_id

\* the filter {"quiz_id": quiz_id, "status": {"$in": ["PASSED", "FAILED"]}}
OnLeaderboard(quiz_id, a) == a.quiz_id = quiz_id /\ a.status \in Terminal

\* a.get("score", 0)
ScoreOf(a) == IF "score" \in DOMAIN a THEN a.score ELSE 0

\* the dictionary appended for one attempt
LeaderboardEntry(a) ==
    [name |-> StudentName(a.student_university_number),
     university_number |-> a.student_university_number,
     score |-> ScoreOf(a),
     status |-> a.status,
     violation_count |-> ViolationCountOf(a),
     time_taken_seconds |-> TimeTaken(a)]

\* the list the cursor loop builds, in the store's natural order
RECURSIVE CollectEntries(_, _)
CollectEntries(quiz_id, col) ==
    IF col = <<>>
    THEN <<>>
    ELSE (IF OnLeaderboard(quiz_id, Head(col))
          THEN <<LeaderboardEntry(Head(col))>>
          ELSE <<>>) \o CollectEntries(quiz_id, Tail(col))

\* a key that orders by rising score
SortKey_RisingScore(x) == <<x.score, x.time_taken_seconds>>

\* key=lambda x: (-x["score"], x["time_taken_seconds"])
SortKey(x) == <<0 - x.score, x.time_taken_seconds>>

\* the order of the key tuples
KeyLess(k1, k2) == k1[1] < k2[1] \/ (k1[1] = k2[1] /\ k1[2] < k2[2])

\* x put behind the entries of a sorted list whose key is not greater
InsertStable(sorted, x) ==
    LET n == Cardinality({i \in 1..Len(sorted) :
                             ~KeyLess(SortKey(x), SortKey(sorted[i]))})
    IN  SubSeq(sorted, 1, n) \o <<x>> \o SubSeq(sorted, n + 1, Len(sorted))

\* list.sort(key=...): stable, entries of equal key keep their order
RECURSIVE ListSort(_)
ListSort(s) ==
    IF s = <<>>
    THEN <<>>
    ELSE InsertStable(ListSort(SubSeq(s, 1, Len(s) - 1)), s[Len(s)])

\* for i, a in enumerate(attempts): a["rank"] = i + 1
WithRanks(s) == [i \in 1..Len(s) |-> s[i] @@ [rank |-> i]]

\* the list the handler returns on the current store
LeaderboardOf(quiz_id) == WithRanks(ListSort(CollectEntries(quiz_id, attempts_col)))

(* ---------------- leaderboard and rank on stores of attempts ---------- *)
\* The leaderboard handler and compute_rank read the attempts store and
\* change nothing, so they are applied to stores drawn from a bounded set:
\* up to MaxAttempts attempts, the i-th by student i, each in progress,
\* submitted to another quiz, or submitted to q1 in one of the shapes below.
BoardQuizzes == {"q1", "q2"}
BoardStudent(i) == ToString(i)
BoardStudents == {BoardStudent(i) : i \in 1..MaxAttempts}

\* submitted attempts: score, status, violation count, started_at (the
\* client's) and submitted_at (the server's) in seconds.  The durations are
\* 300 s, 120 s and 90 s, a day and 90 s, a start after the submission, and
\* a start that does not parse
SubmittedShapes ==
    {<<9, PASSED, 0, 0, 300>>,
     <<8, PASSED, 1, 0, 120>>,
     <<8, PASSED, 0, 0, 90>>,
     <<8, PASSED, 0, 0, SecondsPerDay + 90>>,
     <<9, PASSED, 0, 400, 90>>,
     <<8, PASSED, 0, BadTime, 90>>,
     <<0, FAILED, 1, 0, 90>>}

AttemptShapes ==
    {[quiz_id |-> "q1", score |-> 0, status |-> IN_PROGRESS, violation_count |-> 0,
      started_at |-> 0, submitted_at |-> NoneTime],
     [quiz_id |-> "q2", score |-> 9, status |-> PASSED, violation_count |-> 0,
      started_at |-> 0, submitted_at |-> 90]} \cup
    {[quiz_id |-> "q1", score |-> t[1], status |-> t[2], violation_count |-> t[3],
      started_at |-> t[4], submitted_at |-> t[5]] : t \in SubmittedShapes}

\* the i-th document of a store
BoardDoc(i, shape) ==
    [_id |-> i, student_university_number |-> BoardStudent(i),
     quiz_id |-> shape.quiz_id, answers |-> <<>>, score |-> shape.score,
     violation_count |-> shape.violation_count, status |-> shape.status,
     started_at |-> shape.started_at, submitted_at |-> shape.submitted_at]

BoardStores ==
    UNION {{[i \in 1..n |-> BoardDoc(i, f[i])] : f \in [1..n -> AttemptShapes]} :
              n \in 0..MaxAttempts}

InitBoard ==
    /\ attempts_col \in BoardStores
    /\ questions_col = <<>>
    /\ quizzes_col = <<>>
    /\ clock = 0
    /\ req = [p \in Procs |-> Idle]
    /\ started = 0
    /\ response = NoResponse
    /\ fin = NoInput
    /\ fout = NoOutput

\* GET /quiz/{quiz_id}/leaderboard
leaderboard(quiz_id) ==
    /\ fout = NoOutput
    /\ fout' = [op |-> "leaderboard", quiz_id |-> quiz_id,
                leaderboard |-> LeaderboardOf(quiz_id)]
    /\ UNCHANGED <<attempts_col, questions_col, clock, req, started, response, fin,
                 quizzes_col>>

\* compute_rank called for a student of the store
rank_of(quiz_id, univ) ==
    /\ fout = NoOutput
    /\ fout' = [op |-> "compute_rank", quiz_id |-> quiz_id, univ |-> univ,
                rank |-> compute_rank(quiz_id, univ)]
    /\ UNCHANGED <<attempts_col, questions_col, clock, req, started, response, fin,
                 quizzes_col>>

NextBoard ==
    \/ \E quiz_id \in BoardQuizzes : leaderboard(quiz_id)
    \/ \E quiz_id \in BoardQuizzes, univ \in BoardStudents : rank_of(quiz_id, univ)

SpecBoard == InitBoard /\ [][NextBoard]_vars

(* ------------------------------- the machine -------------------------- *)
Init ==
    /\ attempts_col = <<>>
    /\ questions_col = <<>>
    /\ quizzes_col = <<>>
    /\ clock = 0
    /\ req = [p \in Procs |-> Idle]
    /\ started = 0
    /\ response = NoResponse
    /\ fin = NoInput
    /\ fout = NoOutput

Next ==
    \/ \E p \in Procs, univ \in Students, quiz_id \in Quizzes, vt \in ViolationTypes :
          CallReportViolation(p, univ, quiz_id, vt)
    \/ \E p \in Procs : rv_find_one(p)
    \/ \E p \in Procs : rv_insert_one(p)
    \/ \E p \in Procs : rv_update_one(p)
    \/ \E p \in Procs : rv_find_updated(p)
    \/ \E p \in Procs, univ \in Students, quiz_id \in Quizzes, answers \in AnswerInputs,
          started_at \in StartedAtInputs, force_fail \in BOOLEAN :
          CallSubmitQuiz(p, univ, quiz_id, answers, started_at, force_fail)
    \/ \E p \in Procs : sq_find_one(p)
    \/ \E p \in Procs : sq_questions(p)
    \/ \E p \in Procs : sq_write(p)
    \/ \E p \in Procs : sq_compute_rank(p)
    \/ \E quiz_id \in Quizzes, correct_option \in CorrectOptionInputs :
          add_question(quiz_id, correct_option)

Spec == Init /\ [][Next]_vars

NextQuiz ==
    \/ \E p \in Procs, user \in Teachers, title \in QuizTitles,
          duration_minutes \in QuizDurations, access_code \in AccessCodes :
          CallCreateQuiz(p, user, title, duration_minutes, access_code)
    \/ \E p \in Procs : cq_find_one(p)
    \/ \E p \in Procs : cq_insert_one(p)

SpecQuiz == Init /\ [][NextQuiz]_vars

(* =============================== properties =========================== *)
\* slot p takes the step of handler op that starts at position pc
Step(p, op, pc) == req[p].op = op /\ req[p].pc = pc /\ req'[p] # req[p]

AttemptIds == 1..Len(attempts_col)

\* the stored attempts of a (student, quiz) pair
AttemptsOfPair(univ, quiz_id) ==
    {i \in AttemptIds : AttemptOf(univ, quiz_id, attempts_col[i])}

\* C1: in every reachable state the attempts store holds at most one
\* document per (student, quiz) pair.
C1_AtMostOneAttemptPerPair ==
    \A univ \in Students, quiz_id \in Quizzes :
        Cardinality(AttemptsOfPair(univ, quiz_id)) <= 1

\* C2: once the stored status of an attempt is PASSED or FAILED, no step of
\* any request changes any field of that attempt.
C2_TerminalImmutable ==
    [][\A i \in AttemptIds :
          attempts_col[i].status \in Terminal => attempts_col'[i] = attempts_col[i]]_vars

\* C3: the update_one of a ReportViolation of type t that read an
\* IN_PROGRESS attempt with violation count c stores count c+1; it sets
\* status FAILED and a non-null submitted_at if t is "tab_switch" or c+1 > 1,
\* and otherwise leaves status and submitted_at as they are, so that on an
\* attempt still IN_PROGRESS with count c the attempt fails exactly in these
\* cases and else stays IN_PROGRESS with a null submitted_at.  The response
\* carries the count and status of the updated attempt.
C3_EscalationRule ==
    [][\A p \in Procs :
          /\ Step(p, "report_violation", "update_one") =>
                LET t == req[p].violation_type
                    c == req[p].attempt.violation_count
                    id == req[p].attempt["_id"]
                    old == attempts_col[id]
                    new == attempts_col'[id]
                    fails == t = "tab_switch" \/ c + 1 > 1
                IN  /\ t # "__init__" /\ req[p].attempt.status = IN_PROGRESS
                    /\ new.violation_count = c + 1
                    /\ fails => new.status = FAILED /\ new.submitted_at # NoneTime
                    /\ ~fails => new.status = old.status
                                 /\ new.submitted_at = old.submitted_at
                    /\ (old.status = IN_PROGRESS /\ old.violation_count = c) =>
                          /\ fails <=> new.status = FAILED
                          /\ fails <=> new.submitted_at # NoneTime
                          /\ ~fails => new.status = IN_PROGRESS
          /\ Step(p, "report_violation", "find_updated") =>
                LET new == attempts_col[req[p].attempt["_id"]]
                IN  response' = [op |-> "report_violation", code |-> 200,
                                 violation_count |-> new.violation_count,
                                 status |-> new.status]]_vars

\* a second violation that is no tab_switch has failed the attempt
C3_Witness ==
    /\ response = [op |-> "report_violation", code |-> 200,
                   violation_count |-> 2, status |-> FAILED]
    /\ Len(attempts_col) = 1
    /\ attempts_col[1].violations = <<"noise", "noise">>
    /\ attempts_col[1].violation_count = 2
    /\ attempts_col[1].status = FAILED
    /\ attempts_col[1].submitted_at # NoneTime

\* the inputs and the result of the submit computation
SubmitComputed == fout # NoOutput /\ fin.op = "submit_quiz"
PriorCount == IF fin.existing = NoDoc THEN 0 ELSE fin.existing.violation_count
TotalQuestions == Len(fin.all_questions)

\* C4: a Submit with forceFail false stores and returns PASSED if and only
\* if 2*score >= totalQuestions and the prior violation count is <= 1, and
\* FAILED otherwise; total 4 with 2 correct and no violation is PASSED, total
\* 4 with 1 correct is FAILED, total 4 with 4 correct and 2 violations is
\* FAILED.
C4_PassPolicy ==
    (SubmitComputed /\ ~fin.r.force_fail) =>
        LET doc == fout.attempt_doc
        IN  /\ doc.status \in {PASSED, FAILED}
            /\ doc.status = PASSED <=>
                  (2 * doc.score >= TotalQuestions /\ PriorCount <= 1)
            /\ fout.response.status = doc.status
            /\ (TotalQuestions = 4 /\ doc.score = 2 /\ PriorCount = 0)
                  => doc.status = PASSED
            /\ (TotalQuestions = 4 /\ doc.score = 1) => doc.status = FAILED
            /\ (TotalQuestions = 4 /\ doc.score = 4 /\ PriorCount = 2)
                  => doc.status = FAILED

\* exactly half of four questions correct after one violation: PASSED
C4_Witness ==
    /\ SubmitComputed /\ ~fin.r.force_fail
    /\ TotalQuestions = 4 /\ fout.attempt_doc.score = 2 /\ PriorCount = 1
    /\ fout.attempt_doc.status = PASSED
    /\ fout.response.status = PASSED

\* a label and its other case
CasePairs == {<<"a", "A">>, <<"b", "B">>, <<"c", "C">>, <<"d", "D">>}

\* two labels equal up to case
SameLabel(x, y) == x = y \/ <<x, y>> \in CasePairs \/ <<y, x>> \in CasePairs

\* the questions of the quiz the submitted answers get right
MatchedQuestions ==
    {i \in 1..TotalQuestions :
        LET key == StrId(fin.all_questions[i]["_id"])
        IN  /\ key \in DOMAIN fin.r.answers
            /\ SameLabel(fin.r.answers[key], fin.all_questions[i].correct_option)}

HasTerminalAttempt(univ, quiz_id) ==
    \E i \in AttemptsOfPair(univ, quiz_id) : attempts_col[i].status \in Terminal

\* the pair has a stored attempt that is in progress
HasLiveAttempt(univ, quiz_id) ==
    \E i \in AttemptsOfPair(univ, quiz_id) : attempts_col[i].status = IN_PROGRESS

\* C5: a Submit for a (student, quiz) that has an attempt with terminal
\* status is rejected with the already-submitted error (HTTP 400) and leaves
\* the attempts store unchanged.
C5_SubmitAfterTerminalRejected ==
    [][\A p \in Procs :
          (/\ Step(p, "submit_quiz", "find_one")
           /\ HasTerminalAttempt(req[p].univ, req[p].quiz_id)) =>
                /\ response' = [op |-> "submit_quiz", code |-> 400]
                /\ req'[p] = Idle
                /\ attempts_col' = attempts_col]_vars

\* C6: a ReportViolation of a real type fails with NotFound (HTTP 404) when
\* the pair has no attempt that is in progress (it has none, or only
\* terminal ones); the request ends there and the store is unchanged.
C6_ViolationWithoutLiveAttempt ==
    [][\A p \in Procs :
          (/\ Step(p, "report_violation", "find_one")
           /\ req[p].violation_type # "__init__"
           /\ ~HasLiveAttempt(req[p].univ, req[p].quiz_id)) =>
                /\ response' = [op |-> "report_violation", code |-> 404]
                /\ req'[p] = Idle
                /\ attempts_col' = attempts_col]_vars

\* a violation report on a FAILED attempt was answered NotFound, and the
\* attempt holds the one violation that failed it
C6_Witness ==
    /\ response = [op |-> "report_violation", code |-> 404]
    /\ Len(attempts_col) = 1
    /\ attempts_col[1].status = FAILED
    /\ attempts_col[1].violation_count = 1
    /\ attempts_col[1].violations = <<"tab_switch">>
    /\ started = 3

\* C7: every Submit with forceFail true that is not rejected stores and
\* returns score 0 and status FAILED, whatever the answers and the prior
\* violation count are.
C7_ForceFail ==
    [][\A p \in Procs :
          /\ (Step(p, "submit_quiz", "write") /\ req[p].force_fail) =>
                LET id == IF req[p].existing = NoDoc
                          THEN Len(attempts_col')
                          ELSE req[p].existing["_id"]
                IN  /\ attempts_col'[id].score = 0
                    /\ attempts_col'[id].status = FAILED
                    /\ attempts_col'[id].answers = req[p].answers
          /\ (Step(p, "submit_quiz", "compute_rank") /\ req[p].force_fail) =>
                /\ response'.code = 200
                /\ response'.score = 0
                /\ response'.status = FAILED]_vars

\* a forced Submit with no prior attempt has stored score 0 and FAILED
\* although its answer map answers every question of the quiz right
C7_Witness ==
    \E p \in Procs :
        /\ req[p].op = "submit_quiz" /\ req[p].pc = "compute_rank"
        /\ req[p].force_fail /\ req[p].existing = NoDoc
        /\ Len(questions_col) = 1 /\ questions_col[1].correct_option = "A"
        /\ req[p].answers = [k \in QuestionKeys |-> "a"]
        /\ Len(attempts_col) = 1
        /\ attempts_col[1].answers = req[p].answers
        /\ attempts_col[1].score = 0
        /\ attempts_col[1].status = FAILED

\* C8: the response of an Initialize for a pair that has an attempt reports
\* the stored violation count and status of an attempt of the pair.
C8_InitReturnsCurrent ==
    [][\A p \in Procs :
          (/\ Step(p, "report_violation", "find_one")
           /\ req[p].violation_type = "__init__"
           /\ AttemptsOfPair(req[p].univ, req[p].quiz_id) # {}) =>
                \E i \in AttemptsOfPair(req[p].univ, req[p].quiz_id) :
                    /\ response'.op = "report_violation"
                    /\ response'.code = 200
                    /\ response'.violation_count = attempts_col[i].violation_count
                    /\ response'.status = attempts_col[i].status]_vars

\* C9: an Initialize for a pair with no attempt inserts one attempt with
\* violation count 0, no answers, an empty violation log, score 0, status
\* IN_PROGRESS and a null submitted_at, and changes no other attempt; an
\* Initialize for a pair that has an attempt, in whatever status, ends
\* without changing the store.
C9_InitializeIdempotent ==
    [][\A p \in Procs :
          /\ (/\ Step(p, "report_violation", "find_one")
              /\ req[p].violation_type = "__init__") =>
                /\ attempts_col' = attempts_col
                /\ IF AttemptsOfPair(req[p].univ, req[p].quiz_id) # {}
                   THEN req'[p] = Idle
                   ELSE req'[p].pc = "insert_one"
          /\ Step(p, "report_violation", "insert_one") =>
                /\ Len(attempts_col') = Len(attempts_col) + 1
                /\ \A i \in AttemptIds : attempts_col'[i] = attempts_col[i]
                /\ LET doc == attempts_col'[Len(attempts_col')]
                   IN  /\ doc.student_university_number = req[p].univ
                       /\ doc.quiz_id = req[p].quiz_id
                       /\ doc.violation_count = 0
                       /\ doc.answers = <<>>
                       /\ doc.violations = <<>>
                       /\ doc.score = 0
                       /\ doc.status = IN_PROGRESS
                       /\ doc.started_at \in Times
                       /\ doc.submitted_at = NoneTime]_vars

\* an Initialize was answered while the pair's only attempt is terminal: it
\* inserted nothing and left the attempt as it was
C9_Witness ==
    /\ response = [op |-> "report_violation", code |-> 200,
                   violation_count |-> 0, status |-> IN_PROGRESS]
    /\ Len(attempts_col) = 1
    /\ attempts_col[1].status \in Terminal

\* the list a leaderboard request returned
Board == fout.leaderboard
BoardComputed == fout.op = "leaderboard"

\* C11: the list the leaderboard returns is sorted by score descending and,
\* among equal scores, by time_taken_seconds ascending, and the ranks of its
\* entries are 1..n in list order.
C11_LeaderboardOrdering ==
    BoardComputed =>
        /\ \A i, j \in 1..Len(Board) :
              i < j => \/ Board[i].score > Board[j].score
                       \/ /\ Board[i].score = Board[j].score
                          /\ Board[i].time_taken_seconds <= Board[j].time_taken_seconds
        /\ \A i \in 1..Len(Board) : Board[i].rank = i

\* A (8, 120 s), B (8, 90 s), C (9, 300 s) stored in this order are listed
\* C = 1, B = 2, A = 3
C11_Witness ==
    /\ BoardComputed /\ fout.quiz_id = "q1"
    /\ Len(attempts_col) = 3
    /\ \A i \in 1..3 : attempts_col[i].quiz_id = "q1" /\ attempts_col[i].started_at = 0
    /\ attempts_col[1].score = 8 /\ attempts_col[1].submitted_at = 120
    /\ attempts_col[2].score = 8 /\ attempts_col[2].submitted_at = 90
    /\ attempts_col[3].score = 9 /\ attempts_col[3].submitted_at = 300
    /\ [i \in 1..3 |-> Board[i].university_number]
          = <<BoardStudent(3), BoardStudent(2), BoardStudent(1)>>
    /\ [i \in 1..3 |-> Board[i].rank] = <<1, 2, 3>>
    /\ [i \in 1..3 |-> Board[i].time_taken_seconds] = <<300, 90, 120>>

\* the rank the leaderboard of the store gives the student
RankOnBoard(quiz_id, univ) ==
    LET lb == LeaderboardOf(quiz_id)
    IN  {lb[i].rank : i \in {j \in 1..Len(lb) : lb[j].university_number = univ}}

\* C12: for every store and every student with a terminal attempt in the
\* quiz, compute_rank(quiz, student) is the rank of that student's entry in
\* the leaderboard of the same store.
C12_RankAgreement ==
    (fout.op = "compute_rank" /\ RankOnBoard(fout.quiz_id, fout.univ) # {}) =>
        RankOnBoard(fout.quiz_id, fout.univ) = {fout.rank}

\* the stored attempts of the quiz whose status is PASSED or FAILED
Submitted(quiz_id) ==
    {i \in AttemptIds : /\ attempts_col[i].quiz_id = quiz_id
                        /\ attempts_col[i].status \in {PASSED, FAILED}}

\* the entries of the returned list that show attempt i
EntriesOf(i) ==
    {j \in 1..Len(Board) :
        /\ Board[j].university_number = attempts_col[i].student_university_number
        /\ Board[j].score = attempts_col[i].score
        /\ Board[j].status = attempts_col[i].status
        /\ Board[j].violation_count = attempts_col[i].violation_count}

\* C16: the leaderboard of a quiz holds exactly one entry for each attempt
\* of that quiz whose status is PASSED or FAILED, and no entry for an
\* attempt in progress or an attempt of another quiz.
C16_LeaderboardMembership ==
    BoardComputed =>
        /\ Len(Board) = Cardinality(Submitted(fout.quiz_id))
        /\ \A i \in Submitted(fout.quiz_id) : Cardinality(EntriesOf(i)) = 1
        /\ \A j \in 1..Len(Board) : \E i \in Submitted(fout.quiz_id) : j \in EntriesOf(i)
        /\ \A i \in AttemptIds \ Submitted(fout.quiz_id) : EntriesOf(i) = {}

\* a store with an attempt in progress, an attempt of another quiz and one
\* submitted attempt of the quiz: the list holds the submitted one alone
C16_Witness ==
    /\ BoardComputed /\ fout.quiz_id = "q1"
    /\ Len(attempts_col) = 3
    /\ attempts_col[1].quiz_id = "q1" /\ attempts_col[1].status = IN_PROGRESS
    /\ attempts_col[2].quiz_id = "q2" /\ attempts_col[2].status = PASSED
    /\ attempts_col[3].quiz_id = "q1" /\ attempts_col[3].status = FAILED
    /\ Len(Board) = 1
    /\ Board[1].university_number = attempts_col[3].student_university_number
    /\ Board[1].status = FAILED

\* both timestamps of stored attempt i parse
BothParse(i) ==
    /\ attempts_col[i].started_at \notin {NoneTime, BadTime}
    /\ attempts_col[i].submitted_at \notin {NoneTime, BadTime}

\* C18: the time_taken_seconds of a listed attempt is submitted_at minus
\* started_at in whole seconds when both parse, for every pair of timestamps
\* (durations of a day and more, a start after the submission), and 99999
\* when one does not parse; among equal scores an entry with the sentinel
\* comes after every entry with a parsed time.
C18_TimeTaken ==
    BoardComputed =>
        /\ \A i \in Submitted(fout.quiz_id) : \A j \in EntriesOf(i) :
              Board[j].time_taken_seconds =
                  IF BothParse(i)
                  THEN attempts_col[i].submitted_at - attempts_col[i].started_at
                  ELSE 99999
        /\ \A i, k \in Submitted(fout.quiz_id) :
              (/\ attempts_col[i].score = attempts_col[k].score
               /\ BothParse(i) /\ ~BothParse(k)) =>
                    \A j \in EntriesOf(i), l \in EntriesOf(k) : j < l

\* C13: no two stored quizzes hold the same access code, also when the
\* find_one pre-check and the insert_one of two create_quiz requests
\* interleave.
C13_AccessCodeUnique ==
    \A i, j \in 1..Len(quizzes_col) :
        i # j => quizzes_col[i].access_code # quizzes_col[j].access_code

\* C14: across every step of every interleaving of requests the stored
\* violation_count of an attempt never decreases, and it does not change
\* once the status is PASSED or FAILED.
C14_ViolationCountMonotone ==
    [][\A i \in AttemptIds :
          /\ attempts_col'[i].violation_count >= attempts_col[i].violation_count
          /\ attempts_col[i].status \in Terminal =>
                attempts_col'[i].violation_count = attempts_col[i].violation_count]_vars

\* C19: every stored attempt that has a violation log has a violation_count
\* equal to the length of the log, also when the reads and updates of two
\* ReportViolation requests interleave.
C19_LogMatchesCount ==
    \A i \in AttemptIds :
        "violations" \in DOMAIN attempts_col[i] =>
            attempts_col[i].violation_count = Len(attempts_col[i].violations)

\* C20: no stored attempt has status PASSED while its violation log holds
\* "tab_switch" or two or more violations, under any interleaving of
\* ReportViolation and Submit.
C20_NoPassAfterEscalation ==
    \A i \in AttemptIds :
        (/\ attempts_col[i].status = PASSED
         /\ "violations" \in DOMAIN attempts_col[i]) =>
            /\ \A k \in 1..Len(attempts_col[i].violations) :
                  attempts_col[i].violations[k] # "tab_switch"
            /\ Len(attempts_col[i].violations) < 2

\* C17: an attempt IN_PROGRESS has score 0 and a null submitted_at, an
\* attempt PASSED or FAILED has a non-null submitted_at, and an attempt that
\* a violation escalation or a forced Submit has just made FAILED has score 0.
C17_StatusFieldConsistency ==
    [][/\ \A i \in 1..Len(attempts_col') :
             /\ attempts_col'[i].status = IN_PROGRESS =>
                   /\ attempts_col'[i].score = 0
                   /\ attempts_col'[i].submitted_at = NoneTime
             /\ attempts_col'[i].status \in Terminal =>
                   attempts_col'[i].submitted_at # NoneTime
       /\ \A p \in Procs :
             /\ (/\ Step(p, "report_violation", "update_one")
                 /\ "status" \in DOMAIN req[p].update.set) =>
                   /\ attempts_col'[req[p].attempt["_id"]].status = FAILED
                   /\ attempts_col'[req[p].attempt["_id"]].score = 0
             /\ (Step(p, "submit_quiz", "write") /\ req[p].force_fail) =>
                   LET id == IF req[p].existing = NoDoc
                             THEN Len(attempts_col')
                             ELSE req[p].existing["_id"]
                   IN  /\ attempts_col'[id].status = FAILED
                       /\ attempts_col'[id].score = 0]_vars

\* a first violation that is no tab_switch leaves the attempt IN_PROGRESS
FirstViolationKeepsInProgress(p) ==
    (/\ Step(p, "report_violation", "update_one")
     /\ req[p].violation_type # "tab_switch"
     /\ attempts_col[req[p].attempt["_id"]].status = IN_PROGRESS
     /\ attempts_col[req[p].attempt["_id"]].violation_count = 0) =>
          /\ attempts_col'[req[p].attempt["_id"]].status = IN_PROGRESS
          /\ attempts_col'[req[p].attempt["_id"]].violation_count = 1

\* slot p's Submit, not forced, read an attempt with violation count 1
SubmitAfterOneViolation(p, pc) ==
    /\ Step(p, "submit_quiz", pc)
    /\ ~req[p].force_fail
    /\ req[p].existing # NoDoc
    /\ req[p].existing.violation_count = 1

\* C15 as stated: a single violation that is no tab_switch leaves the attempt
\* IN_PROGRESS, and a Submit (not forced) on an attempt with violation count
\* exactly 1 never stores PASSED.
C15_CapAtOneViolation ==
    [][\A p \in Procs :
          /\ FirstViolationKeepsInProgress(p)
          /\ SubmitAfterOneViolation(p, "write") =>
                attempts_col'[req[p].existing["_id"]].status # PASSED]_vars

\* C15 amended: a single violation that is no tab_switch leaves the attempt
\* IN_PROGRESS and does not cap the result: a Submit (not forced) on an
\* attempt with violation count exactly 1 computes PASSED if and only if
\* 2*score >= total, so with every question answered right it computes
\* PASSED, and it stores the status it computed.
C15_OneViolationTolerated ==
    [][\A p \in Procs :
          /\ FirstViolationKeepsInProgress(p)
          /\ SubmitAfterOneViolation(p, "questions") =>
                LET doc == req'[p].attempt_doc
                    total == Len(QuestionsOf(req[p].quiz_id))
                IN  /\ doc.status = PASSED <=> 2 * doc.score >= total
                    /\ doc.status \in {PASSED, FAILED}
                    /\ doc.score = total => doc.status = PASSED
                    /\ doc.violation_count = 1
          /\ SubmitAfterOneViolation(p, "write") =>
                /\ attempts_col'[req[p].existing["_id"]].status = req[p].attempt_doc.status
                /\ attempts_col'[req[p].existing["_id"]].score = req[p].attempt_doc.score]_vars

\* after one "noise" violation a Submit answering the quiz's one question
\* right has stored PASSED with violation count 1
C15_Witness ==
    /\ Len(attempts_col) = 1 /\ Len(questions_col) = 1
    /\ "violations" \in DOMAIN attempts_col[1]
    /\ attempts_col[1].violations = <<"noise">>
    /\ attempts_col[1].violation_count = 1
    /\ attempts_col[1].score = 1
    /\ attempts_col[1].status = PASSED

\* the fields a violation report may write
ViolationFields == {"violation_count", "violations", "status", "submitted_at"}

\* C21: the update_one of a ReportViolation of a real type changes only the
\* violation_count, violations, status and submitted_at of one attempt, an
\* attempt of the calling (student, quiz); that attempt's answers, score and
\* started_at and every other field of it, every other attempt, and all
\* quizzes and questions stay as they are.  The other steps of the request
\* change nothing in the store.
C21_ReportViolationFrame ==
    [][\A p \in Procs :
          /\ Step(p, "report_violation", "update_one") =>
                LET id == req[p].attempt["_id"]
                    old == attempts_col[id]
                    new == attempts_col'[id]
                IN  /\ AttemptOf(req[p].univ, req[p].quiz_id, old)
                    /\ Len(attempts_col') = Len(attempts_col)
                    /\ \A i \in AttemptIds : i # id => attempts_col'[i] = attempts_col[i]
                    /\ DOMAIN new = DOMAIN old \cup {"violations"}
                    /\ \A k \in DOMAIN old \ ViolationFields : new[k] = old[k]
                    /\ new.answers = old.answers
                    /\ new.score = old.score
                    /\ new.started_at = old.started_at
                    /\ questions_col' = questions_col
                    /\ quizzes_col' = quizzes_col
          /\ (/\ req[p].op = "report_violation"
              /\ req[p].violation_type # "__init__"
              /\ req[p].pc \in {"find_one", "find_updated"}
              /\ req'[p] # req[p]) =>
                /\ attempts_col' = attempts_col
                /\ questions_col' = questions_col
                /\ quizzes_col' = quizzes_col]_vars

\* a tab_switch report has updated an attempt that holds submitted answers
\* and score 1: the answers and the score are still there
C21_Witness ==
    \E p \in Procs :
        /\ req[p].op = "report_violation" /\ req[p].pc = "find_updated"
        /\ Len(attempts_col) = 1 /\ Len(questions_col) = 1
        /\ "violations" \in DOMAIN attempts_col[1]
        /\ attempts_col[1].violations = <<"tab_switch">>
        /\ attempts_col[1].violation_count = 1
        /\ attempts_col[1].status = FAILED
        /\ attempts_col[1].answers # <<>>
        /\ attempts_col[1].score = 1

====
